---- MODULE Spec2Model ----
(***************************************************************************)
(* The chatbot HTTP service of backend/main.py: four endpoints on one      *)
(* single-threaded request loop, a one-node graph around llm.invoke, and   *)
(* the external chat model as a nondeterministic environment.              *)
(*                                                                         *)
(* Every handler is an `async def` that never awaits: chat_endpoint and    *)
(* chat_stream_endpoint call graph.invoke synchronously, so the loop       *)
(* thread stays inside the handler from its first line to its response.    *)
(* The only point where the outside world acts in between is the external  *)
(* model call, so a chat handler is two steps: up to the call (..._call)   *)
(* and from the call's outcome to the response (..._respond).              *)
(***************************************************************************)
EXTENDS Integers, Sequences, FiniteSets, TLC

VARIABLES
    requests,   \* HTTP requests received, in order of arrival; a request's id is its index
    frames,     \* frames[r]: the handler of request r: its position pc ("pending": not
                \* started, "invoking": inside llm.invoke, "done") and its local messages
    calls,      \* the log of llm.invoke calls, in order: [rid, messages]
    outcomes,   \* outcomes[r]: what the external call of request r returned or raised
    responses   \* the log of HTTP responses sent, in order: [rid, status_code, body]

vars == <<requests, frames, calls, outcomes, responses>>

----------------------------------------------------------------------------
(* Bounds of the model *)

MaxRequests == 2    \* requests received in one run of the service (Spec)
MaxHist == 2        \* length of a conversation_history (SpecRequest)

----------------------------------------------------------------------------
(* Data *)

Roles == {"user", "assistant", "system"}
Contents == {"hi", "how are you?"}

\* class ChatMessage(BaseModel): role: str, content: str
ChatMessage == [role : Roles, content : Contents]

Histories(n) == UNION {[1..k -> ChatMessage] : k \in 0..n}

\* class ChatRequest(BaseModel): message: str, conversation_history: List[ChatMessage] = []
ChatRequest == [message : Contents, conversation_history : Histories(MaxHist)]

\* The ChatRequests sent to the running service, each possibly more than once:
\* a first message, a follow-up with one earlier message, and a follow-up to a
\* two-turn conversation.
ReplayRequests ==
    { [message |-> "hi", conversation_history |-> <<>>],
      [message |-> "how are you?",
       conversation_history |-> <<[role |-> "user", content |-> "hi"]>>],
      [message |-> "how are you?",
       conversation_history |-> <<[role |-> "user", content |-> "hi"],
                                  [role |-> "assistant", content |-> "how are you?"]>>] }

GetPaths == {"/", "/health"}
ChatPaths == {"/chat", "/chat/stream"}

\* A Python value held by a message's content: a str, or a list of content blocks.
PyStr(s) == [type |-> "str", value |-> s]
PyList(b) == [type |-> "list", value |-> b]
IsStr(v) == v.type = "str"

\* What llm.invoke can do: return one reply message, whose content is a str
\* (possibly empty) or a list of blocks, or raise.
ReplyContents == {PyStr("Welcome to the hotel"), PyStr(""), PyList(<<"Welcome to the hotel">>)}
Replies == [role : {"assistant"}, content : ReplyContents]

\* str(e) of the errors of the external call: auth, network, quota, malformed response
ProviderErrors == {"401 Unauthorized", "Connection error.", "429 Too Many Requests",
                   "Expecting value: line 1 column 1 (char 0)"}

ProviderOutcomes ==
    [kind : {"return"}, message : Replies] \cup [kind : {"raise"}, error : ProviderErrors]

NoOutcome == [kind |-> "none"]

\* str(e) of the pydantic ValidationError of ChatResponse(response=<not a str>)
ValidationErrorText == "1 validation error for ChatResponse"

----------------------------------------------------------------------------
(* Pure parts of the handlers *)

Last(s) == s[Len(s)]

\* for msg in history: messages.append({"role": msg.role, "content": msg.content})
RECURSIVE AppendHistory(_, _)
AppendHistory(messages, history) ==
    IF history = <<>> THEN messages
    ELSE AppendHistory(Append(messages, [role |-> Head(history).role,
                                         content |-> Head(history).content]),
                       Tail(history))

\* /chat: messages = []; the loop over conversation_history; the new user message
chat_messages(request) ==
    LET messages == AppendHistory(<<>>, request.conversation_history)
    IN  Append(messages, [role |-> "user", content |-> request.message])

\* A slip in the list building: the new message put first (messages.insert(0, ...)).
chat_stream_messages_newest_first(request) ==
    <<[role |-> "user", content |-> request.message]>>
        \o AppendHistory(<<>>, request.conversation_history)

\* A handler that forwards the new message alone.
chat_stream_messages_no_history(request) ==
    <<[role |-> "user", content |-> request.message]>>

\* /chat/stream: the same three statements, written a second time in the source
chat_stream_messages(request) ==
    LET messages == AppendHistory(<<>>, request.conversation_history)
    IN  Append(messages, [role |-> "user", content |-> request.message])

----------------------------------------------------------------------------
(* The graph: START -> chatbot -> END over State{messages: add_messages} *)

\* The reducer of State.messages appends the update to what the state holds.
add_messages(left, right) == left \o right

\* def chatbot(state): return {"messages": [llm.invoke(state["messages"])]}
\* `reply` is what llm.invoke returned.
chatbot(state, reply) == [messages |-> <<reply>>]

\* The argument llm.invoke gets when the graph is invoked with `input`.
llm_input(input) == add_messages(<<>>, input.messages)

\* graph.invoke(input) when llm.invoke returns `reply`: the final state.
graph_invoke(input, reply) ==
    LET state == [messages |-> llm_input(input)]
    IN  [messages |-> add_messages(state.messages, chatbot(state, reply).messages)]

----------------------------------------------------------------------------
(* Responses *)

JSONResponse(code, body) == [status_code |-> code, body |-> body]

\* raise HTTPException(status_code, detail): FastAPI answers {"detail": detail}
HTTPException(code, detail) == JSONResponse(code, [detail |-> detail])

ChatResponse(response, status) == [response |-> response, status |-> status]

DetailPrefix == "Error processing your message: "

\* An except branch that answers every failure with one fixed detail.
chat_endpoint_result_generic(messages, outcome) ==
    IF outcome.kind = "raise"
    THEN HTTPException(500, "Internal server error")
    ELSE LET response_content == Last(graph_invoke([messages |-> messages],
                                                   outcome.message).messages).content
         IN  IF IsStr(response_content)
             THEN JSONResponse(200, ChatResponse(response_content.value, "success"))
             ELSE HTTPException(500, "Internal server error")

\* A reply built without validation: a content that is no str is left out.
chat_endpoint_result_partial(messages, outcome) ==
    IF outcome.kind = "raise"
    THEN HTTPException(500, DetailPrefix \o outcome.error)
    ELSE LET response_content == Last(graph_invoke([messages |-> messages],
                                                   outcome.message).messages).content
         IN  IF IsStr(response_content)
             THEN JSONResponse(200, ChatResponse(response_content.value, "success"))
             ELSE JSONResponse(200, [status |-> "success"])

\* /chat from the return of graph.invoke on: `messages` is the handler's local
\* list, `outcome` what llm.invoke did.
chat_endpoint_result(messages, outcome) ==
    IF outcome.kind = "raise"
    THEN HTTPException(500, DetailPrefix \o outcome.error)
    ELSE LET result == graph_invoke([messages |-> messages], outcome.message)
             assistant_message == Last(result.messages)
             response_content == assistant_message.content
         IN  IF IsStr(response_content)
             THEN JSONResponse(200, ChatResponse(response_content.value, "success"))
             ELSE HTTPException(500, DetailPrefix \o ValidationErrorText)

\* A handler that swallows the exception and answers 200 with the error text.
chat_stream_endpoint_result_swallow(messages, outcome) ==
    IF outcome.kind = "raise"
    THEN JSONResponse(200, ChatResponse(outcome.error, "error"))
    ELSE LET assistant_message == Last(graph_invoke([messages |-> messages],
                                                    outcome.message).messages)
         IN  IF IsStr(assistant_message.content)
             THEN JSONResponse(200, ChatResponse(assistant_message.content.value, "success"))
             ELSE HTTPException(500, DetailPrefix \o ValidationErrorText)

\* /chat/stream, likewise.
chat_stream_endpoint_result(messages, outcome) ==
    IF outcome.kind = "raise"
    THEN HTTPException(500, DetailPrefix \o outcome.error)
    ELSE LET result == graph_invoke([messages |-> messages], outcome.message)
             assistant_message == Last(result.messages)
         IN  IF IsStr(assistant_message.content)
             THEN JSONResponse(200, ChatResponse(assistant_message.content.value, "success"))
             ELSE HTTPException(500, DetailPrefix \o ValidationErrorText)

----------------------------------------------------------------------------
(* The service *)

Rids == DOMAIN requests

\* The loop thread is inside a handler exactly while that handler is inside
\* llm.invoke; no other handler starts meanwhile.
LoopFree == \A r \in Rids : frames[r].pc # "invoking"

Send(r, response) ==
    responses' = Append(responses, [rid |-> r, status_code |-> response.status_code,
                                    body |-> response.body])

Init ==
    /\ requests = <<>>
    /\ frames = <<>>
    /\ calls = <<>>
    /\ outcomes = <<>>
    /\ responses = <<>>

Receive(req) ==
    /\ requests' = Append(requests, req)
    /\ frames' = Append(frames, [pc |-> "pending", messages |-> <<>>])
    /\ outcomes' = Append(outcomes, NoOutcome)
    /\ UNCHANGED <<calls, responses>>

GetRequests == [path : GetPaths]

\* A request reaches the running service.
ReceiveReplay ==
    /\ Len(requests) < MaxRequests
    /\ \E req \in GetRequests \cup [path : ChatPaths, body : ReplayRequests] : Receive(req)

\* The one request of a run that handles a single request, of any content.
ReceiveOne ==
    /\ requests = <<>>
    /\ \E req \in GetRequests \cup [path : ChatPaths, body : ChatRequest] : Receive(req)

\* @app.get("/")
root(r) ==
    /\ LoopFree
    /\ frames[r].pc = "pending"
    /\ requests[r].path = "/"
    /\ Send(r, JSONResponse(200, [message |-> "Chatbot API is running!", status |-> "healthy"]))
    /\ frames' = [frames EXCEPT ![r].pc = "done"]
    /\ UNCHANGED <<requests, calls, outcomes>>

\* A health check that reports on the provider: unhealthy once a chat request failed.
health_check_probing(r) ==
    /\ LoopFree
    /\ frames[r].pc = "pending"
    /\ requests[r].path = "/health"
    /\ IF \E i \in DOMAIN responses : responses[i].status_code = 500
       THEN Send(r, JSONResponse(503, [status |-> "unhealthy", service |-> "chatbot-api"]))
       ELSE Send(r, JSONResponse(200, [status |-> "healthy", service |-> "chatbot-api"]))
    /\ frames' = [frames EXCEPT ![r].pc = "done"]
    /\ UNCHANGED <<requests, calls, outcomes>>

\* @app.get("/health")
health_check(r) ==
    /\ LoopFree
    /\ frames[r].pc = "pending"
    /\ requests[r].path = "/health"
    /\ Send(r, JSONResponse(200, [status |-> "healthy", service |-> "chatbot-api"]))
    /\ frames' = [frames EXCEPT ![r].pc = "done"]
    /\ UNCHANGED <<requests, calls, outcomes>>

\* A handler that appends to one module-level messages list instead of its own.
chat_endpoint_call_shared_list(r) ==
    /\ LoopFree
    /\ frames[r].pc = "pending"
    /\ requests[r].path = "/chat"
    /\ LET shared == IF calls = <<>> THEN <<>> ELSE Last(calls).messages
           messages == shared \o chat_messages(requests[r].body)
       IN  /\ frames' = [frames EXCEPT ![r] = [pc |-> "invoking", messages |-> messages]]
           /\ calls' = Append(calls, [rid |-> r,
                                      messages |-> llm_input([messages |-> messages])])
    /\ UNCHANGED <<requests, outcomes, responses>>

\* @app.post("/chat"), up to the external call: the handler builds its list
\* and graph.invoke runs the chatbot node into llm.invoke.
chat_endpoint_call(r) ==
    /\ LoopFree
    /\ frames[r].pc = "pending"
    /\ requests[r].path = "/chat"
    /\ LET messages == chat_messages(requests[r].body)
       IN  /\ frames' = [frames EXCEPT ![r] = [pc |-> "invoking", messages |-> messages]]
           /\ calls' = Append(calls, [rid |-> r,
                                      messages |-> llm_input([messages |-> messages])])
    /\ UNCHANGED <<requests, outcomes, responses>>

\* A handler that calls the model a second time when the first call raised.
chat_endpoint_respond_retry(r) ==
    /\ frames[r].pc = "invoking"
    /\ requests[r].path = "/chat"
    /\ \E outcome \in ProviderOutcomes :
        /\ outcomes' = [outcomes EXCEPT ![r] = outcome]
        /\ Send(r, chat_endpoint_result(frames[r].messages, outcome))
        /\ calls' = IF outcome.kind = "raise"
                    THEN Append(calls, [rid |-> r, messages |-> frames[r].messages])
                    ELSE calls
    /\ frames' = [frames EXCEPT ![r].pc = "done"]
    /\ UNCHANGED requests

\* @app.post("/chat"), from the outcome of the external call to the response
chat_endpoint_respond(r) ==
    /\ frames[r].pc = "invoking"
    /\ requests[r].path = "/chat"
    /\ \E outcome \in ProviderOutcomes :
        /\ outcomes' = [outcomes EXCEPT ![r] = outcome]
        /\ Send(r, chat_endpoint_result(frames[r].messages, outcome))
    /\ frames' = [frames EXCEPT ![r].pc = "done"]
    /\ UNCHANGED <<requests, calls>>

\* @app.post("/chat/stream"), up to the external call
chat_stream_endpoint_call(r) ==
    /\ LoopFree
    /\ frames[r].pc = "pending"
    /\ requests[r].path = "/chat/stream"
    /\ LET messages == chat_stream_messages(requests[r].body)
       IN  /\ frames' = [frames EXCEPT ![r] = [pc |-> "invoking", messages |-> messages]]
           /\ calls' = Append(calls, [rid |-> r,
                                      messages |-> llm_input([messages |-> messages])])
    /\ UNCHANGED <<requests, outcomes, responses>>

\* @app.post("/chat/stream"), from the outcome of the external call to the response
chat_stream_endpoint_respond(r) ==
    /\ frames[r].pc = "invoking"
    /\ requests[r].path = "/chat/stream"
    /\ \E outcome \in ProviderOutcomes :
        /\ outcomes' = [outcomes EXCEPT ![r] = outcome]
        /\ Send(r, chat_stream_endpoint_result(frames[r].messages, outcome))
    /\ frames' = [frames EXCEPT ![r].pc = "done"]
    /\ UNCHANGED <<requests, calls>>

Next ==
    \/ ReceiveReplay
    \/ \E r \in Rids : root(r)
    \/ \E r \in Rids : health_check(r)
    \/ \E r \in Rids : chat_endpoint_call(r)
    \/ \E r \in Rids : chat_endpoint_respond(r)
    \/ \E r \in Rids : chat_stream_endpoint_call(r)
    \/ \E r \in Rids : chat_stream_endpoint_respond(r)

Spec == Init /\ [][Next]_vars

NextRequest ==
    \/ ReceiveOne
    \/ \E r \in Rids : root(r)
    \/ \E r \in Rids : health_check(r)
    \/ \E r \in Rids : chat_endpoint_call(r)
    \/ \E r \in Rids : chat_endpoint_respond(r)
    \/ \E r \in Rids : chat_stream_endpoint_call(r)
    \/ \E r \in Rids : chat_stream_endpoint_respond(r)

SpecRequest == Init /\ [][NextRequest]_vars

----------------------------------------------------------------------------
(* What the logs say about one request *)

CallsOf(r) == SelectSeq(calls, LAMBDA c : c.rid = r)
ResponsesOf(r) == SelectSeq(responses, LAMBDA x : x.rid = r)
IsChat(r) == requests[r].path \in ChatPaths
Done(r) == frames[r].pc = "done"
Returned(r) == outcomes[r].kind = "return"
Raised(r) == outcomes[r].kind = "raise"

\* The request's handling raised: in llm.invoke, or in ChatResponse(...) on a
\* content that is not a str.
Failed(r) == Raised(r) \/ (Returned(r) /\ ~IsStr(outcomes[r].message.content))

----------------------------------------------------------------------------
(* C1: the message list handed to the model by /chat and /chat/stream is the
   request's conversation_history, in order and unchanged, followed by exactly
   one {role: "user", content: message}; and no step changes a received
   request. *)

HistoryThenMessage(request) ==
    request.conversation_history \o <<[role |-> "user", content |-> request.message]>>

C1_AssembledList ==
    /\ [](\A i \in DOMAIN calls :
            calls[i].messages = HistoryThenMessage(requests[calls[i].rid].body))
    /\ [][\A r \in Rids : requests'[r] = requests[r]]_vars

\* A /chat/stream request with two different history entries was handed to the
\* model and answered.
C1_Witness ==
    \E i \in DOMAIN calls :
        LET r == calls[i].rid
            H == requests[r].body.conversation_history
        IN  /\ requests[r].path = "/chat/stream"
            /\ Len(H) = 2
            /\ H[1] # H[2]
            /\ H[2].content # requests[r].body.message
            /\ Done(r)

(* C2: whenever the model invocation succeeds, /chat answers 200 with status
   "success" and response equal to the content of the message the invocation
   returned. *)
C2_SuccessReply ==
    \A r \in Rids :
        (requests[r].path = "/chat" /\ Done(r) /\ Returned(r)) =>
            LET rs == ResponsesOf(r)
            IN  /\ Len(rs) = 1
                /\ rs[1].status_code = 200
                /\ DOMAIN rs[1].body = {"response", "status"}
                /\ rs[1].body.status = "success"
                /\ rs[1].body.response = outcomes[r].message.content.value

(* C3: a chat request whose handling raised, in the model call or while the
   reply was built, is answered with 500 and a body {detail: string}, and
   with nothing else: no other status code and no ChatResponse. *)
C3_ErrorIs500 ==
    \A r \in Rids :
        (IsChat(r) /\ Done(r) /\ Failed(r)) =>
            LET rs == ResponsesOf(r)
            IN  /\ Len(rs) = 1
                /\ rs[1].status_code = 500
                /\ DOMAIN rs[1].body = {"detail"}
                /\ rs[1].body.detail \in STRING

\* One request failed in the model call on /chat/stream, another on /chat
\* while its reply was built; both were answered.
C3_Witness ==
    \E r1, r2 \in Rids :
        /\ requests[r1].path = "/chat/stream" /\ Done(r1) /\ Raised(r1)
        /\ requests[r2].path = "/chat" /\ Done(r2) /\ Returned(r2) /\ Failed(r2)
        /\ Len(ResponsesOf(r1)) = 1 /\ Len(ResponsesOf(r2)) = 1

(* C4: every response to GET / is 200 {message, status: "healthy"} and every
   response to GET /health is 200 {status: "healthy", service: "chatbot-api"},
   whatever the provider did before; and no model call is ever made for a
   GET request. *)
C4_HealthFixed ==
    /\ \A i \in DOMAIN responses :
        LET path == requests[responses[i].rid].path
        IN  /\ path = "/" =>
                /\ responses[i].status_code = 200
                /\ responses[i].body =
                       [message |-> "Chatbot API is running!", status |-> "healthy"]
            /\ path = "/health" =>
                /\ responses[i].status_code = 200
                /\ responses[i].body = [status |-> "healthy", service |-> "chatbot-api"]
    /\ \A i \in DOMAIN calls : IsChat(calls[i].rid)

\* GET /health was answered after a chat request had been answered 500.
C4_Witness ==
    \E i, j \in DOMAIN responses :
        /\ i < j
        /\ responses[i].status_code = 500
        /\ requests[responses[j].rid].path = "/health"
        /\ responses[j].status_code = 200

(* C5, as claimed: any two chat requests whose model call failed get the same
   error response, whatever the causes of the failures. *)
C5_Uniform ==
    \A r1, r2 \in Rids :
        (IsChat(r1) /\ IsChat(r2) /\ Done(r1) /\ Done(r2) /\ Raised(r1) /\ Raised(r2)) =>
            /\ ResponsesOf(r1)[1].status_code = ResponsesOf(r2)[1].status_code
            /\ ResponsesOf(r1)[1].body = ResponsesOf(r2)[1].body

(* C5, amended: every chat request whose model call failed is answered 500
   with a body {detail} whose detail is the fixed prefix followed by str(e) of
   the failure; two such requests get the same body exactly when their
   failures have the same text. *)
C5_UniformStatusTextInDetail ==
    \A r1, r2 \in Rids :
        (IsChat(r1) /\ IsChat(r2) /\ Done(r1) /\ Done(r2) /\ Raised(r1) /\ Raised(r2)) =>
            LET x1 == ResponsesOf(r1)[1]
                x2 == ResponsesOf(r2)[1]
            IN  /\ x1.status_code = 500 /\ x2.status_code = 500
                /\ DOMAIN x1.body = {"detail"} /\ DOMAIN x2.body = {"detail"}
                /\ x1.body.detail = DetailPrefix \o outcomes[r1].error
                /\ (x1.body = x2.body) <=> (outcomes[r1].error = outcomes[r2].error)

\* Two chat requests failed for different causes and were answered differently.
C5_Witness ==
    \E r1, r2 \in Rids :
        /\ IsChat(r1) /\ IsChat(r2) /\ Done(r1) /\ Done(r2)
        /\ Raised(r1) /\ Raised(r2)
        /\ outcomes[r1].error = "401 Unauthorized"
        /\ outcomes[r2].error = "Connection error."
        /\ requests[r1].path = "/chat"
        /\ ResponsesOf(r1)[1].body # ResponsesOf(r2)[1].body

(* C6: a /chat/stream request and a /chat request with the same ChatRequest
   hand the same message list to the model in one call each, and for the same
   provider outcome they return the same status code and the same body. *)
C6_StreamSameAsChat ==
    \A r1, r2 \in Rids :
        (/\ requests[r1].path = "/chat"
         /\ requests[r2].path = "/chat/stream"
         /\ requests[r1].body = requests[r2].body) =>
            /\ (frames[r1].pc # "pending" /\ frames[r2].pc # "pending") =>
                /\ Len(CallsOf(r1)) = 1 /\ Len(CallsOf(r2)) = 1
                /\ CallsOf(r1)[1].messages = CallsOf(r2)[1].messages
            /\ (Done(r1) /\ Done(r2) /\ outcomes[r1] = outcomes[r2]) =>
                /\ Len(ResponsesOf(r1)) = 1 /\ Len(ResponsesOf(r2)) = 1
                /\ ResponsesOf(r1)[1].status_code = ResponsesOf(r2)[1].status_code
                /\ ResponsesOf(r1)[1].body = ResponsesOf(r2)[1].body

\* The same conversation was answered on both paths with the same reply.
C6_Witness ==
    \E r1, r2 \in Rids :
        /\ requests[r1].path = "/chat"
        /\ requests[r2].path = "/chat/stream"
        /\ requests[r1].body = requests[r2].body
        /\ Len(requests[r1].body.conversation_history) = 2
        /\ Done(r1) /\ Done(r2)
        /\ outcomes[r1] = outcomes[r2]
        /\ Returned(r1) /\ ~Failed(r1)
        /\ ResponsesOf(r2)[1].status_code = 200

(* C7: two requests to the same chat path with the same ChatRequest hand the
   same message list to the model, and for the same provider outcome get the
   same response, whatever was received, called or answered before or between
   them. *)
C7_Stateless ==
    \A r1, r2 \in Rids :
        (/\ r1 # r2
         /\ IsChat(r1)
         /\ requests[r1] = requests[r2]) =>
            /\ (CallsOf(r1) # <<>> /\ CallsOf(r2) # <<>>) =>
                CallsOf(r1)[1].messages = CallsOf(r2)[1].messages
            /\ (Done(r1) /\ Done(r2) /\ outcomes[r1] = outcomes[r2]) =>
                /\ ResponsesOf(r1)[1].status_code = ResponsesOf(r2)[1].status_code
                /\ ResponsesOf(r1)[1].body = ResponsesOf(r2)[1].body

\* The same /chat request, with a history, was received twice and answered
\* twice with the same outcome, the first received answered first.
C7_Witness ==
    \E r1, r2 \in Rids :
        /\ r1 < r2
        /\ requests[r1].path = "/chat"
        /\ requests[r1] = requests[r2]
        /\ requests[r1].body.conversation_history # <<>>
        /\ Done(r1) /\ Done(r2)
        /\ outcomes[r1] = outcomes[r2]
        /\ responses[1].rid = r1

(* C8: a chat request whose handler has started has made exactly one model
   call, also once it has been answered and also when the call raised; a
   request not yet started, and a GET request, has made none. So n identical
   requests make n calls. *)
C8_OneCallPerRequest ==
    \A r \in Rids :
        Len(CallsOf(r)) = IF IsChat(r) /\ frames[r].pc # "pending" THEN 1 ELSE 0

\* The same ChatRequest was sent twice: two calls were made, the first raised
\* and the second returned a reply.
C8_Witness ==
    \E r1, r2 \in Rids :
        /\ r1 < r2
        /\ requests[r1].path = "/chat"
        /\ requests[r1] = requests[r2]
        /\ Done(r1) /\ Done(r2)
        /\ Raised(r1) /\ Returned(r2)
        /\ Len(calls) = 2
        /\ calls[1].messages = calls[2].messages
        /\ ResponsesOf(r1)[1].body # ResponsesOf(r2)[1].body

CompleteChatResponse(x) ==
    /\ x.status_code = 200
    /\ DOMAIN x.body = {"response", "status"}
    /\ x.body.response \in STRING
    /\ x.body.status = "success"

ErrorResponse(x) ==
    /\ x.status_code = 500
    /\ DOMAIN x.body = {"detail"}
    /\ x.body.detail \in STRING

(* C9: a chat request has no response until its model call has returned or
   raised, and from that step on exactly one, which is a complete
   ChatResponse or an error response. *)
C9_OneCompleteResponse ==
    \A r \in Rids :
        IsChat(r) =>
            /\ (outcomes[r].kind = "none") <=> ~Done(r)
            /\ ~Done(r) => ResponsesOf(r) = <<>>
            /\ Done(r) =>
                /\ Len(ResponsesOf(r)) = 1
                /\ CompleteChatResponse(ResponsesOf(r)[1]) \/ ErrorResponse(ResponsesOf(r)[1])

\* One reply had a list for content and was answered with an error, another
\* had the empty string and was answered with a complete ChatResponse.
C9_Witness ==
    \E r1, r2 \in Rids :
        /\ requests[r1].path = "/chat" /\ Done(r1) /\ Returned(r1)
        /\ ~IsStr(outcomes[r1].message.content)
        /\ ErrorResponse(ResponsesOf(r1)[1])
        /\ IsChat(r2) /\ Done(r2) /\ Returned(r2)
        /\ outcomes[r2].message.content = PyStr("")
        /\ CompleteChatResponse(ResponsesOf(r2)[1])

(* C10: a request that has been received and not yet handled can be handled
   at once, also while another request's model call is in flight. *)
C10_LoopStaysResponsive ==
    \A r \in Rids :
        frames[r].pc = "pending" =>
            ENABLED (\/ root(r)
                     \/ health_check(r)
                     \/ chat_endpoint_call(r)
                     \/ chat_stream_endpoint_call(r))

====
